---- MODULE Spec2Model ----
(***************************************************************************)
(* Sketchris (src/sketchris.js): a falling-block game whose pieces are     *)
(* supplied by classifying a sketch drawn on a pad.                        *)
(*                                                                         *)
(* One state of the model is the state of the script between two callbacks *)
(* of the browser's event loop (the script is single threaded; every       *)
(* handler runs to completion).  The one suspension point is the await of  *)
(* the classifier in onPadReleased: the handler is split in the part       *)
(* before the await (action End) and the part after it (action             *)
(* ClassifierReturns).                                                     *)
(*                                                                         *)
(* Indices: the source's arrays are 0-based, TLA+ sequences are 1-based.   *)
(* Coordinates (pos.x, pos.y, loop indices) keep the source's 0-based      *)
(* values; only the sequence accesses add 1.                               *)
(***************************************************************************)
EXTENDS Integers, Sequences, FiniteSets, TLC

\* ---------------------------------------------------------------- constants
COLS == 10
ROWS == 20
DROP_START_SPEED_MS == 800
SPEED_PER_LEVEL == 60
MIN_DROP_MS == 100
SPAWN_X == 3
LEVEL_LINES == 10

PIECE_CODES == <<"I", "J", "L", "O", "S", "T", "Z">>

\* JavaScript null for a cell of the arena and for player.type
Null == "null"
\* JavaScript null for player.matrix (a matrix is a non-empty sequence of rows)
NoMatrix == <<>>

SHAPES ==
    [I |-> << <<<<0,0,0,0>>,<<1,1,1,1>>,<<0,0,0,0>>,<<0,0,0,0>>>>,
              <<<<0,0,1,0>>,<<0,0,1,0>>,<<0,0,1,0>>,<<0,0,1,0>>>>,
              <<<<0,0,0,0>>,<<0,0,0,0>>,<<1,1,1,1>>,<<0,0,0,0>>>>,
              <<<<0,1,0,0>>,<<0,1,0,0>>,<<0,1,0,0>>,<<0,1,0,0>>>> >>,
     O |-> << <<<<1,1>>,<<1,1>>>>,
              <<<<1,1>>,<<1,1>>>>,
              <<<<1,1>>,<<1,1>>>>,
              <<<<1,1>>,<<1,1>>>> >>,
     T |-> << <<<<0,1,0>>,<<1,1,1>>,<<0,0,0>>>>,
              <<<<0,1,0>>,<<0,1,1>>,<<0,1,0>>>>,
              <<<<0,0,0>>,<<1,1,1>>,<<0,1,0>>>>,
              <<<<0,1,0>>,<<1,1,0>>,<<0,1,0>>>> >>,
     S |-> << <<<<0,1,1>>,<<1,1,0>>,<<0,0,0>>>>,
              <<<<0,1,0>>,<<0,1,1>>,<<0,0,1>>>>,
              <<<<0,0,0>>,<<0,1,1>>,<<1,1,0>>>>,
              <<<<1,0,0>>,<<1,1,0>>,<<0,1,0>>>> >>,
     Z |-> << <<<<1,1,0>>,<<0,1,1>>,<<0,0,0>>>>,
              <<<<0,0,1>>,<<0,1,1>>,<<0,1,0>>>>,
              <<<<0,0,0>>,<<1,1,0>>,<<0,1,1>>>>,
              <<<<0,1,0>>,<<1,1,0>>,<<1,0,0>>>> >>,
     J |-> << <<<<1,0,0>>,<<1,1,1>>,<<0,0,0>>>>,
              <<<<0,1,1>>,<<0,1,0>>,<<0,1,0>>>>,
              <<<<0,0,0>>,<<1,1,1>>,<<0,0,1>>>>,
              <<<<0,1,0>>,<<0,1,0>>,<<1,1,0>>>> >>,
     L |-> << <<<<0,0,1>>,<<1,1,1>>,<<0,0,0>>>>,
              <<<<0,1,0>>,<<0,1,0>>,<<0,1,1>>>>,
              <<<<0,0,0>>,<<1,1,1>>,<<1,0,0>>>>,
              <<<<1,1,0>>,<<0,1,0>>,<<0,1,0>>>> >>]

\* --------------------------------------------------------------- the arena
emptyRow == [x \in 1..COLS |-> Null]

createMatrix == [y \in 1..ROWS |-> emptyRow]

\* true when the cell (y, x) of the matrix m is filled (0-based y, x)
filled(m, y, x) == m[y + 1][x + 1] # 0

\* collide without the test of the arena cell: only the walls and the floor stop a piece
collide_boundsOnly(a, piece) ==
    LET m == piece.matrix
    IN  \E y \in 0..(Len(m) - 1) :
          \E x \in 0..(Len(m[y + 1]) - 1) :
            /\ filled(m, y, x)
            /\ LET ay == y + piece.pos.y
                   ax == x + piece.pos.x
               IN  ay < 0 \/ ay >= ROWS \/ ax < 0 \/ ax >= COLS

collide(a, piece) ==
    LET m == piece.matrix
    IN  \E y \in 0..(Len(m) - 1) :
          \E x \in 0..(Len(m[y + 1]) - 1) :
            /\ filled(m, y, x)
            /\ LET ay == y + piece.pos.y
                   ax == x + piece.pos.x
               IN  \/ ay < 0
                   \/ ay >= ROWS
                   \/ ax < 0
                   \/ ax >= COLS
                   \/ a[ay + 1][ax + 1] # Null

\* the cells of piece, in arena coordinates (0-based <<ay, ax>>)
cellsOf(piece) ==
    LET m == piece.matrix
    IN  { <<y + piece.pos.y, x + piece.pos.x>> :
            <<y, x>> \in { c \in (0..(Len(m) - 1)) \X (0..(Len(m) - 1)) :
                             filled(m, c[1], c[2]) } }

merge(a, piece) ==
    LET cs == cellsOf(piece)
    IN  [ay \in 1..ROWS |->
           [ax \in 1..COLS |->
              IF <<ay - 1, ax - 1>> \in cs THEN piece.type ELSE a[ay][ax]]]

\* rotateMatrix that moves every row up by one (the top row to the bottom) and turns nothing
rotateMatrix_cycleRows(m) ==
    LET N == Len(m)
    IN  [i \in 1..N |-> m[(i % N) + 1]]

rotateMatrix(m) ==
    LET N == Len(m)
    IN  [i \in 1..N |-> [j \in 1..N |-> m[N + 1 - j][i]]]

\* ------------------------------------------------------------------- state
VARIABLES
    arena,        \* arena: ROWS rows of COLS cells, each Null or a piece code
    player,       \* player: [pos, matrix, rot, type]; matrix = NoMatrix when Idle
    queue,        \* queue: pending piece codes, front first
    score,        \* score
    level,        \* level
    cleared,      \* cleared: total of cleared lines
    dropCounter,  \* dropCounter: gravity accumulator (ms)
    paused,       \* paused
    drawing,      \* drawing: a stroke is in progress on the pad
    overlay,      \* padOverlay is shown (its class list lacks 'hidden')
    pending,      \* number of onPadReleased calls suspended at `await predictPad()`
    cues,         \* audio cues played by the last callback, in order
    ops,          \* what the last callback did to queue, piece and arena, in order
    backlog,      \* codes enqueued and not yet spawned, in the order of their enqueue
    steps         \* number of callbacks still to be explored

vars == <<arena, player, queue, score, level, cleared, dropCounter, paused,
          drawing, overlay, pending, cues, ops, backlog, steps>>

\* the script's variables as one value, threaded through the functions below
State ==
    [arena |-> arena, player |-> player, queue |-> queue, score |-> score,
     level |-> level, cleared |-> cleared, dropCounter |-> dropCounter,
     paused |-> paused, drawing |-> drawing, overlay |-> overlay,
     pending |-> pending, cues |-> cues, ops |-> ops]

\* an entry of ops: op names the operation, code the piece code it handled,
\* a and b two numbers whose meaning depends on op
Op(op, code, a, b) == [op |-> op, code |-> code, a |-> a, b |-> b]

log(s, e) == [s EXCEPT !.ops = Append(@, e)]

Has(o, name) == \E i \in DOMAIN o : o[i].op = name

\* the backlog b after the queue operations recorded in o, from the i-th on
RECURSIVE replay(_, _, _)
replay(b, o, i) ==
    IF i > Len(o) THEN b
    ELSE IF o[i].op = "unshift" THEN replay(Append(b, o[i].code), o, i + 1)
    ELSE IF o[i].op = "shift" /\ b # <<>> THEN replay(Tail(b), o, i + 1)
    ELSE replay(b, o, i + 1)

Commit(s) ==
    /\ backlog' = replay(backlog, s.ops, 1)
    /\ arena' = s.arena
    /\ player' = s.player
    /\ queue' = s.queue
    /\ score' = s.score
    /\ level' = s.level
    /\ cleared' = s.cleared
    /\ dropCounter' = s.dropCounter
    /\ paused' = s.paused
    /\ drawing' = s.drawing
    /\ overlay' = s.overlay
    /\ pending' = s.pending
    /\ cues' = s.cues
    /\ ops' = s.ops

\* AudioMgr.play(key): the cue is emitted whether or not playback succeeds
play(s, key) == [s EXCEPT !.cues = Append(@, key)]

isPieceActive(s) == s.player.matrix # NoMatrix

\* mutant: the class toggle inverted
showPadOverlay_inverted(s, show) == [s EXCEPT !.overlay = ~show]

showPadOverlay(s, show) == [s EXCEPT !.overlay = show]

\* ------------------------------------------------- line clearing and score
POINTS == <<0, 40, 100, 300, 1200>>

\* mutant: the level is raised before the points are multiplied by it
onLinesCleared_levelFirst(s, n) ==
    LET points == IF n + 1 \in DOMAIN POINTS THEN POINTS[n + 1] ELSE 0
        c      == s.cleared + n
        lv     == IF c >= s.level * LEVEL_LINES THEN s.level + 1 ELSE s.level
    IN  [s EXCEPT !.score = @ + points * lv, !.cleared = c, !.level = lv]

\* mutant: `>` for `>=` in the level test
onLinesCleared_strict(s, n) ==
    LET points == IF n + 1 \in DOMAIN POINTS THEN POINTS[n + 1] ELSE 0
        c      == s.cleared + n
    IN  [s EXCEPT !.score   = @ + points * s.level,
                  !.cleared = c,
                  !.level   = IF c > s.level * LEVEL_LINES THEN @ + 1 ELSE @]

onLinesCleared(s, n) ==
    LET points == IF n + 1 \in DOMAIN POINTS THEN POINTS[n + 1] ELSE 0
        c      == s.cleared + n
    IN  [s EXCEPT !.score   = @ + points * s.level,
                  !.cleared = c,
                  !.level   = IF c >= s.level * LEVEL_LINES THEN @ + 1 ELSE @]

\* arena.splice(y,1)[0].fill(null); arena.unshift(row)   (0-based y)
spliceUnshift(a, y) ==
    [r \in 1..ROWS |-> IF r = 1 THEN emptyRow
                       ELSE IF r <= y + 1 THEN a[r - 1] ELSE a[r]]

rowFull(a, y) == \A x \in 0..(COLS - 1) : a[y + 1][x + 1] # Null

\* mutant: no `y++` after a removal, the row that moved down into y is not examined
RECURSIVE clearLoop_noRecheck(_, _, _)
clearLoop_noRecheck(a, y, lines) ==
    IF y < 0 THEN [arena |-> a, lines |-> lines]
    ELSE IF ~rowFull(a, y) THEN clearLoop_noRecheck(a, y - 1, lines)
    ELSE clearLoop_noRecheck(spliceUnshift(a, y), y - 1, lines + 1)

\* the loop of clearLines, from row y upwards, with `lines` rows removed so far
RECURSIVE clearLoop(_, _, _)
clearLoop(a, y, lines) ==
    IF y < 0 THEN [arena |-> a, lines |-> lines]
    ELSE IF ~rowFull(a, y) THEN clearLoop(a, y - 1, lines)
    ELSE clearLoop(spliceUnshift(a, y), y, lines + 1)

clearLines(s) ==
    LET r  == clearLoop(s.arena, ROWS - 1, 0)
        s1 == log([s EXCEPT !.arena = r.arena], Op("clear", Null, r.lines, 0))
    IN  IF r.lines > 0 THEN onLinesCleared(play(s1, "line"), r.lines) ELSE s1

\* ------------------------------------------------------------- spawn queue
\* getNextCode: the code shifted off the queue (Null when empty) and the state after
\* mutant: reads queue[0] and leaves it in the queue
getNextCode_peek(s) ==
    IF Len(s.queue) > 0
    THEN [code |-> Head(s.queue),
          st   |-> log(s, Op("shift", Head(s.queue), Len(s.queue), Len(s.queue)))]
    ELSE [code |-> Null, st |-> s]

getNextCode(s) ==
    IF Len(s.queue) > 0
    THEN [code |-> Head(s.queue),
          st   |-> log([s EXCEPT !.queue = Tail(@)],
                       Op("shift", Head(s.queue), Len(s.queue), Len(s.queue) - 1))]
    ELSE [code |-> Null, st |-> s]

createPiece(code) ==
    [type |-> code, matrix |-> SHAPES[code][1], rot |-> 0,
     pos |-> [x |-> SPAWN_X, y |-> 0]]

\* mutant: a colliding spawn resets nothing
gameOver_none(s) == s

\* mutant: the reset forgets the score
gameOver_keepScore(s) ==
    log([s EXCEPT !.arena = createMatrix, !.level = 1, !.cleared = 0],
        Op("reset", Null, 0, 0))

\* the game-over branch of spawnNext
gameOver(s) ==
    log([s EXCEPT !.arena = createMatrix, !.score = 0, !.level = 1, !.cleared = 0],
        Op("reset", Null, 0, 0))

\* mutant: an empty queue leaves the overlay as it is
spawnNext_keepOverlay(s) ==
    LET g == getNextCode(s)
    IN  IF g.code = Null
        THEN [g.st EXCEPT !.player.matrix = NoMatrix]
        ELSE LET p  == createPiece(g.code)
                 s1 == log([g.st EXCEPT !.player = [type |-> g.code, matrix |-> p.matrix,
                                                    rot |-> 0,
                                                    pos |-> [x |-> SPAWN_X, y |-> 0]]],
                           Op("spawn", g.code, Len(g.st.queue), 0))
                 s2 == IF collide(s1.arena, s1.player) THEN gameOver(s1) ELSE s1
             IN  showPadOverlay(s2, TRUE)

spawnNext(s) ==
    LET g == getNextCode(s)
    IN  IF g.code = Null
        THEN showPadOverlay([g.st EXCEPT !.player.matrix = NoMatrix], FALSE)
        ELSE LET p  == createPiece(g.code)
                 s1 == log([g.st EXCEPT !.player = [type |-> g.code, matrix |-> p.matrix,
                                                    rot |-> 0,
                                                    pos |-> [x |-> SPAWN_X, y |-> 0]]],
                           Op("spawn", g.code, Len(g.st.queue), 0))
                 s2 == IF collide(s1.arena, s1.player) THEN gameOver(s1) ELSE s1
             IN  showPadOverlay(s2, TRUE)

\* ---------------------------------------------------------------- controls
\* dropInterval without Math.max(100, ...)
dropInterval_noFloor(lv) == DROP_START_SPEED_MS - (lv - 1) * SPEED_PER_LEVEL

dropInterval(lv) ==
    LET v == DROP_START_SPEED_MS - (lv - 1) * SPEED_PER_LEVEL
    IN  IF v > MIN_DROP_MS THEN v ELSE MIN_DROP_MS

\* merge(arena, player) at a lock, recorded in ops with the piece's position
mergePlayer(s) ==
    log([s EXCEPT !.arena = merge(s.arena, s.player)],
        Op("merge", s.player.type, s.player.pos.x, s.player.pos.y))

\* playerDrop without `player.pos.y--`: the piece is merged where it collided
playerDrop_noRevert(s) ==
    IF ~isPieceActive(s) THEN s
    ELSE LET s1 == [s EXCEPT !.player.pos.y = @ + 1]
             s2 == IF collide(s1.arena, s1.player)
                   THEN LET b == play(mergePlayer(s1), "lock")
                            c == clearLines(b)
                            d == [c EXCEPT !.player.matrix = NoMatrix]
                        IN  spawnNext(showPadOverlay(d, FALSE))
                   ELSE s1
         IN  [s2 EXCEPT !.dropCounter = 0]

playerDrop(s) ==
    IF ~isPieceActive(s) THEN s
    ELSE LET s1 == [s EXCEPT !.player.pos.y = @ + 1]
             s2 == IF collide(s1.arena, s1.player)
                   THEN \* a: after pos.y--, b: merged and `lock` played, c: lines
                        \* cleared; each of them is computed once
                        CHOOSE d \in
                          { spawnNext(showPadOverlay([c EXCEPT !.player.matrix = NoMatrix],
                                                     FALSE)) :
                              c \in { clearLines(b) :
                                b \in { play(mergePlayer(a), "lock") :
                                  a \in { [s1 EXCEPT !.player.pos.y = @ - 1] } } } } : TRUE
                   ELSE s1
         IN  [s2 EXCEPT !.dropCounter = 0]

\* with no active piece collide() reads matrix.length of null and throws:
\* the handler ends after `player.pos.x += dir`
\* playerMove without `if(collide(arena,player)) player.pos.x-=dir`
playerMove_noRevert(s, dir) == [s EXCEPT !.player.pos.x = @ + dir]

playerMove(s, dir) ==
    LET s1 == [s EXCEPT !.player.pos.x = @ + dir]
    IN  IF ~isPieceActive(s1) THEN s1
        ELSE IF collide(s1.arena, s1.player)
             THEN [s1 EXCEPT !.player.pos.x = @ - dir]
             ELSE s1

\* the kicks with the left one tried before the right one
kicks_leftFirst == <<0, -1, 1, -2, 2>>

kicks == <<0, 1, -1, 2, -2>>

\* the loop without `player.matrix = old` and `player.pos.x = oldX`: when every
\* kick collides the piece stays rotated at the last kick
RECURSIVE kickLoop_keepLast(_, _, _, _)
kickLoop_keepLast(s, rotated, oldX, i) ==
    LET t == [s EXCEPT !.player.pos.x = oldX + kicks[i], !.player.matrix = rotated]
    IN  IF ~collide(t.arena, t.player) \/ i = Len(kicks) THEN t
        ELSE kickLoop_keepLast(s, rotated, oldX, i + 1)

\* the loop over kicks of playerRotate, from the i-th kick on
RECURSIVE kickLoop(_, _, _, _)
kickLoop(s, rotated, oldX, i) ==
    IF i > Len(kicks) THEN [s EXCEPT !.player.pos.x = oldX]
    ELSE LET t == [s EXCEPT !.player.pos.x = oldX + kicks[i],
                            !.player.matrix = rotated]
         IN  IF ~collide(t.arena, t.player) THEN t
             ELSE kickLoop(s, rotated, oldX, i + 1)

playerRotate(s) ==
    IF ~isPieceActive(s) THEN s
    ELSE kickLoop(s, rotateMatrix(s.player.matrix), s.player.pos.x, 1)

\* the loop without clearLines(): the piece is merged and the next one spawned
RECURSIVE hardLoop_noClear(_)
hardLoop_noClear(s) ==
    LET s1 == [s EXCEPT !.player.pos.y = @ + 1]
    IN  IF collide(s1.arena, s1.player)
        THEN spawnNext(mergePlayer([s1 EXCEPT !.player.pos.y = @ - 1]))
        ELSE hardLoop_noClear(s1)

\* the `while(true)` loop of the hard-drop handlers
RECURSIVE hardLoop(_)
hardLoop(s) ==
    LET s1 == [s EXCEPT !.player.pos.y = @ + 1]
    IN  IF collide(s1.arena, s1.player)
        THEN spawnNext(clearLines(mergePlayer([s1 EXCEPT !.player.pos.y = @ - 1])))
        ELSE hardLoop(s1)

\* keydown ' ' and the click handler of btnHard (the same statements)
hardDrop(s) == IF ~isPieceActive(s) THEN s ELSE hardLoop(s)

\* update that never adds delta to dropCounter
update_noAccumulate(s, delta) ==
    IF ~s.paused /\ isPieceActive(s)
    THEN IF s.dropCounter > dropInterval(s.level) THEN playerDrop(s) ELSE s
    ELSE s

\* update(time), with delta = time - lastTime
update(s, delta) ==
    IF ~s.paused /\ isPieceActive(s)
    THEN LET s1 == [s EXCEPT !.dropCounter = @ + delta]
         IN  IF s1.dropCounter > dropInterval(s1.level) THEN playerDrop(s1) ELSE s1
    ELSE s

\* ------------------------------------------------------ recognition pipeline
Max(S) == CHOOSE m \in S : \A v \in S : v <= m

Pow2(n) == IF n <= 0 THEN 1 ELSE 2 ^ n

\* softmax, up to the positive factor 1/sum and with base 2 for e: the weight of a
\* score v under the maximum m is Pow2(EXP_RANGE + v - m), and 0 (underflow) when v
\* is more than EXP_RANGE below m
EXP_RANGE == 8

softmax(logits) ==
    LET m == Max({logits[i] : i \in DOMAIN logits})
    IN  [i \in DOMAIN logits |->
           IF logits[i] - m < -EXP_RANGE THEN 0 ELSE Pow2(EXP_RANGE + logits[i] - m)]

\* the loop with `>=` for `>`: among equal probabilities the last index wins
RECURSIVE argmaxLoop_lastOnTies(_, _, _)
argmaxLoop_lastOnTies(probs, best, i) ==
    IF i >= Len(probs) THEN best
    ELSE argmaxLoop_lastOnTies(probs, IF probs[i + 1] >= probs[best + 1] THEN i ELSE best,
                               i + 1)

\* `let best = 0; for(i = 1; ...) if(probs[i] > probs[best]) best = i`  (0-based)
RECURSIVE argmaxLoop(_, _, _)
argmaxLoop(probs, best, i) ==
    IF i >= Len(probs) THEN best
    ELSE argmaxLoop(probs, IF probs[i + 1] > probs[best + 1] THEN i ELSE best, i + 1)

\* the value predictPad resolves to for the classifier's output logits
predictPad(logits) ==
    LET best == argmaxLoop(softmax(logits), 0, 1)
    IN  IF best + 1 \in DOMAIN PIECE_CODES THEN PIECE_CODES[best + 1] ELSE Null

\* the pad receives mousedown/touchstart only while padOverlay is hidden
padReceivesPointer(s) == ~s.overlay

start(s) == IF isPieceActive(s) THEN s ELSE [s EXCEPT !.drawing = TRUE]

\* mutant: the overlay is not shown while the classifier runs
onPadReleased_noOverlay(s) ==
    IF isPieceActive(s) THEN s
    ELSE [play(s, "summon") EXCEPT !.pending = @ + 1]

\* onPadReleased up to `await predictPad()` (session and gameReady are set at boot)
onPadReleased(s) ==
    IF isPieceActive(s) THEN s
    ELSE [showPadOverlay(play(s, "summon"), TRUE) EXCEPT !.pending = @ + 1]

\* mutant: drawing is not reset on release
end_keepDrawing(s) == IF ~s.drawing THEN s ELSE onPadReleased(s)

end(s) == IF ~s.drawing THEN s ELSE onPadReleased([s EXCEPT !.drawing = FALSE])

\* the continuation with the code put in the queue twice
onPredicted_twice(s, pieceCode) ==
    LET s1 == [s EXCEPT !.pending = @ - 1]
    IN  IF pieceCode # Null
        THEN spawnNext(log([s1 EXCEPT !.queue = <<pieceCode, pieceCode>> \o @],
                           Op("unshift", pieceCode, Len(s1.queue), Len(s1.queue) + 2)))
        ELSE showPadOverlay(s1, FALSE)

\* onPadReleased from the await on, predictPad having resolved to pieceCode
onPredicted(s, pieceCode) ==
    LET s1 == [s EXCEPT !.pending = @ - 1]
    IN  IF pieceCode # Null
        THEN spawnNext(log([s1 EXCEPT !.queue = <<pieceCode>> \o @],
                           Op("unshift", pieceCode, Len(s1.queue), Len(s1.queue) + 1)))
        ELSE showPadOverlay(s1, FALSE)

\* ------------------------------------------------------------------ bounds
\* callbacks explored from the state after boot
MaxSteps == 9
\* callbacks explored from a mid-game state
MidSteps == 7
\* elapsed time of a frame (ms)
FrameMs == 400

\* outputs of the classifier: a winner for each class, by a margin that grows with
\* the class (the weights of the losers underflow from class 3 on), and two ties
Logits ==
    { [i \in 1..7 |-> IF i = k THEN 3 * k ELSE 0] : k \in 1..7 }
      \cup { [i \in 1..7 |-> 0], [i \in 1..7 |-> IF i \in {2, 4} THEN 3 ELSE 1] }

\* ----------------------------------------------------------------- actions
\* the state a callback starts from: the records of the last callback are dropped
Fresh == [State EXCEPT !.cues = <<>>, !.ops = <<>>]

Tick == steps > 0 /\ steps' = steps - 1

Start == Tick /\ padReceivesPointer(State) /\ Commit(start(Fresh))

End == Tick /\ Commit(end(Fresh))

ClassifierReturns ==
    /\ Tick
    /\ pending > 0
    /\ \E logits \in Logits :
         LET pieceCode == predictPad(logits)
         IN  Commit(onPredicted(log(Fresh, Op("predict", pieceCode, logits, 0)), pieceCode))

KeyLeft == Tick /\ Commit(playerMove(Fresh, -1))

KeyRight == Tick /\ Commit(playerMove(Fresh, 1))

KeyDown == Tick /\ Commit(playerDrop(Fresh))

KeySpace == Tick /\ Commit(hardDrop(Fresh))

KeyUp == Tick /\ Commit(playerRotate(Fresh))

KeyZ == Tick /\ Commit(playerRotate(playerRotate(playerRotate(Fresh))))

KeyP == Tick /\ Commit([Fresh EXCEPT !.paused = ~@])

\* a frame follows the last one after FrameMs, or after a pause three times as long
Frame == Tick /\ \E delta \in {FrameMs, 3 * FrameMs} : Commit(update(Fresh, delta))

Next ==
    \/ Start
    \/ End
    \/ ClassifierReturns
    \/ KeyLeft
    \/ KeyRight
    \/ KeyDown
    \/ KeySpace
    \/ KeyUp
    \/ KeyZ
    \/ KeyP
    \/ Frame

\* the state when the boot sequence (spawnNext(); update(); gameReady = true) is done
Init ==
    /\ arena = createMatrix
    /\ player = [pos |-> [x |-> SPAWN_X, y |-> 0], matrix |-> NoMatrix, rot |-> 0,
                 type |-> Null]
    /\ queue = <<>>
    /\ score = 0
    /\ level = 1
    /\ cleared = 0
    /\ dropCounter = 0
    /\ paused = FALSE
    /\ drawing = FALSE
    /\ overlay = FALSE
    /\ pending = 0
    /\ cues = <<>>
    /\ ops = <<>>
    /\ backlog = <<>>
    /\ steps = MaxSteps

Spec == Init /\ [][Next]_vars

\* ------------------------------------------------------- mid-game states
\* an arena whose bottom rows are given from the top one down, each by the set of
\* its empty columns; the rows above are empty and the locked cells came from I pieces
stack(holes) ==
    [y \in 1..ROWS |->
       IF y <= ROWS - Len(holes) THEN emptyRow
       ELSE [x \in 1..COLS |->
               IF (x - 1) \in holes[y - (ROWS - Len(holes))] THEN Null ELSE "I"]]

\* a well of depth 4 in column 5
Well4 == stack(<<{5}, {5}, {5}, {5}>>)
\* a well of depth 3 in column 5 under a row holding one cell
Well3 == stack(<<(0..(COLS - 1)) \ {4}, {5}, {5}, {5}>>)
\* a well in column 5 whose rows alternate with rows that have a second hole
Split == stack(<<{5}, {0, 5}, {5}, {0, 5}>>)
\* two rows open in columns 3 and 4, under the spawn position of O
Pair == stack(<<{3, 4}, {3, 4}>>)
\* the bottom row open in columns 3..6, under the spawn position of I
Slot == stack(<<{3, 4, 5, 6}>>)
\* column 5 filled up to the top row: five I pieces, each rotated once and dropped
Tower == [y \in 1..ROWS |-> [x \in 1..COLS |-> IF x - 1 = 5 THEN "I" ELSE Null]]

\* a stack up to row 3 with a well in column 0, and on it a row open in columns 3..6
HighSlot == stack(<<{3, 4, 5, 6}>> \o [i \in 1..(ROWS - 3) |-> {0}])

\* wells in columns 3 and 5 that reach up to row 4: in every other column four I
\* pieces, each rotated once, one on another
DeepWell == stack([i \in 1..(ROWS - 4) |-> {3, 5}])

MidArenas == {createMatrix, Well4, Well3, Split, Pair, Slot, Tower, HighSlot, DeepWell}

\* score states reached by clearing single lines only (40 x level each)
ScoreStates ==
    { [score |-> 0, level |-> 1, cleared |-> 0],
      [score |-> 280, level |-> 1, cleared |-> 7],
      [score |-> 360, level |-> 1, cleared |-> 9],
      [score |-> 1040, level |-> 2, cleared |-> 18] }

\* between two pieces of a game in progress (the state after boot included): Idle,
\* nothing drawn yet; player.type is still the code of the piece locked last
InitMid ==
    /\ arena \in MidArenas
    /\ \E sc \in ScoreStates : score = sc.score /\ level = sc.level /\ cleared = sc.cleared
    /\ player = [pos |-> [x |-> SPAWN_X, y |-> 0], matrix |-> NoMatrix, rot |-> 0,
                 type |-> IF arena = createMatrix /\ cleared = 0 THEN Null ELSE "I"]
    /\ queue = <<>>
    /\ dropCounter = 0
    /\ paused = FALSE
    /\ drawing = FALSE
    /\ overlay = FALSE
    /\ pending = 0
    /\ cues = <<>>
    /\ ops = <<>>
    /\ backlog = <<>>
    /\ steps = MidSteps

SpecMid == InitMid /\ [][Next]_vars

\* ------------------------------------------------- collide on its own
\* how far beyond the walls and above the top row a probed piece is placed
ProbeMargin == 3

ProbeArenas == {createMatrix, Split, Tower, HighSlot}

\* one call collide(arena, player); the outcome is recorded as 1 (true) or 0 (false)
Probe ==
    /\ Tick
    /\ Commit(log(Fresh, Op("collide", player.type,
                            IF collide(arena, player) THEN 1 ELSE 0, 0)))

\* any piece in any orientation, placed anywhere on and around the board
InitCollide ==
    /\ arena \in ProbeArenas
    /\ \E k \in DOMAIN SHAPES, r \in 1..4,
          px \in (0 - ProbeMargin)..(COLS - 1 + ProbeMargin),
          py \in (0 - ProbeMargin)..(ROWS - 1 + ProbeMargin) :
          player = [pos |-> [x |-> px, y |-> py], matrix |-> SHAPES[k][r],
                    rot |-> r - 1, type |-> k]
    /\ queue = <<>>
    /\ score = 0
    /\ level = 1
    /\ cleared = 0
    /\ dropCounter = 0
    /\ paused = FALSE
    /\ drawing = FALSE
    /\ overlay = TRUE
    /\ pending = 0
    /\ cues = <<>>
    /\ ops = <<>>
    /\ backlog = <<>>
    /\ steps = 1

SpecCollide == InitCollide /\ [][Probe]_vars

\* --------------------------------------------------- gravity on its own
\* frames explored from a state with a piece just spawned, or with none
FrameSteps == 4

\* the time between two frames: a quarter of FrameMs, FrameMs, or three times FrameMs
FrameDeltas == {FrameMs \div 4, FrameMs, 3 * FrameMs}

\* score states reached by clearing single lines only, at the first level, at the
\* last level whose interval is above 100 ms, and at the first two at 100 ms
FrameScoreStates ==
    { [score |-> 0, level |-> 1, cleared |-> 0],
      [score |-> 26400, level |-> 12, cleared |-> 110],
      [score |-> 31200, level |-> 13, cleared |-> 120],
      [score |-> 36400, level |-> 14, cleared |-> 130] }

\* one call update(time) of the game loop
FrameAny == Tick /\ \E delta \in FrameDeltas : Commit(update(Fresh, delta))

NextFrame == FrameAny \/ KeyP

\* a piece of any kind has just been spawned (after a soft-drop lock: dropCounter
\* is 0), or no piece is in play; paused or not
InitFrame ==
    /\ arena \in {createMatrix, HighSlot}
    /\ \E sc \in FrameScoreStates :
         score = sc.score /\ level = sc.level /\ cleared = sc.cleared
    /\ \E k \in DOMAIN SHAPES, active \in BOOLEAN :
         /\ player = [pos |-> [x |-> SPAWN_X, y |-> 0], rot |-> 0, type |-> k,
                      matrix |-> IF active THEN SHAPES[k][1] ELSE NoMatrix]
         /\ overlay = active
    /\ paused \in BOOLEAN
    /\ queue = <<>>
    /\ dropCounter = 0
    /\ drawing = FALSE
    /\ pending = 0
    /\ cues = <<>>
    /\ ops = <<>>
    /\ backlog = <<>>
    /\ steps = FrameSteps

SpecFrame == InitFrame /\ [][NextFrame]_vars

\* ------------------------------------------------ the game loop, unbounded
\* callbacks other than frames explored from a state with a piece just spawned
LiveSteps == 2

LiveArenas == {createMatrix, HighSlot, DeepWell}

\* one call update(time); frames are not counted, they arrive as long as the page lives
FrameLive ==
    /\ steps' = steps
    /\ \E delta \in {FrameMs, 3 * FrameMs} : \E s \in {update(Fresh, delta)} : Commit(s)

NextLive ==
    \/ FrameLive
    \/ KeyLeft
    \/ KeyRight
    \/ KeyDown
    \/ KeySpace
    \/ KeyUp
    \/ KeyZ
    \/ KeyP

\* a piece of any kind has just been spawned after a soft-drop lock
InitLive ==
    /\ arena \in LiveArenas
    /\ \E sc \in ScoreStates : score = sc.score /\ level = sc.level /\ cleared = sc.cleared
    /\ \E k \in DOMAIN SHAPES :
         player = [pos |-> [x |-> SPAWN_X, y |-> 0], rot |-> 0, type |-> k,
                   matrix |-> SHAPES[k][1]]
    /\ overlay = TRUE
    /\ paused = FALSE
    /\ queue = <<>>
    /\ dropCounter = 0
    /\ drawing = FALSE
    /\ pending = 0
    /\ cues = <<>>
    /\ ops = <<>>
    /\ backlog = <<>>
    /\ steps = LiveSteps

\* update ends with requestAnimationFrame(update): a frame that can change the
\* state is not put off for ever
SpecLive == InitLive /\ [][NextLive]_vars /\ WF_vars(FrameLive)

\* ================================================================== claims
Active == player.matrix # NoMatrix

Idle == player.matrix = NoMatrix

\* the piece the callback started with was merged before anything else happened
LockedFirst ==
    /\ Len(ops') > 0
    /\ ops'[1].op = "merge"
    /\ ops'[1].code = player.type

C2_PendingImpliesIdle ==
    /\ [](pending > 0 => Idle)
    /\ [][Has(ops', "unshift") => Idle]_vars

\* a classification has returned and its piece is in play
C2_Witness == Has(ops, "unshift") /\ pending = 0 /\ Active

\* C3: at most one classification is in flight.
C3_AtMostOneInFlight == pending <= 1

\* a classification is in flight and a later callback has been dispatched meanwhile
C3_Witness == pending = 1 /\ cues = <<>> /\ ops = <<>>

\* the code that every shift recorded in o finds at the front of the backlog b
RECURSIVE fifo(_, _, _)
fifo(b, o, i) ==
    IF i > Len(o) THEN TRUE
    ELSE IF o[i].op = "unshift" THEN fifo(Append(b, o[i].code), o, i + 1)
    ELSE IF o[i].op = "shift"
         THEN b # <<>> /\ Head(b) = o[i].code /\ fifo(Tail(b), o, i + 1)
    ELSE fifo(b, o, i + 1)

Count(o, name) == Cardinality({i \in DOMAIN o : o[i].op = name})

\* C4: in every callback, each spawn follows a shift of the same code that took the
\* front of the queue and shortened it by exactly 1; the piece in play afterwards
\* is of the code last spawned, in its base orientation; a code is pushed only by a
\* returning classification; the queue changes by those pushes and pops only;
\* codes are popped in the order they were pushed; and a piece is Active after a
\* callback without a spawn only if it was Active before and was not locked.
C4_QueueSoleSource ==
    [][/\ \A i \in DOMAIN ops' :
            ops'[i].op = "spawn" =>
              /\ i > 1
              /\ ops'[i - 1].op = "shift"
              /\ ops'[i - 1].code = ops'[i].code
              /\ ops'[i - 1].b = ops'[i - 1].a - 1
              /\ ops'[i].a = ops'[i - 1].b
       /\ Has(ops', "spawn") =>
            LET k == CHOOSE i \in DOMAIN ops' :
                       ops'[i].op = "spawn"
                       /\ \A j \in DOMAIN ops' : ops'[j].op = "spawn" => j <= i
            IN  player'.type = ops'[k].code /\ player'.matrix = SHAPES[ops'[k].code][1]
       /\ Has(ops', "unshift") => pending' = pending - 1
       /\ Len(queue') = Len(queue) + Count(ops', "unshift") - Count(ops', "shift")
       /\ fifo(backlog, ops', 1)
       /\ (~Has(ops', "spawn") /\ player'.matrix # NoMatrix)
            => (Active /\ ~Has(ops', "merge"))
      ]_vars

\* a T was popped and spawned, and nothing is left to spawn
C4_Witness == Has(ops, "spawn") /\ Active /\ player.type = "T" /\ backlog = <<>>

\* the index of the last spawn recorded in o
LastSpawn(o) ==
    CHOOSE i \in DOMAIN o :
      o[i].op = "spawn" /\ \A j \in DOMAIN o : o[j].op = "spawn" => j <= i

\* the piece of the given code as it enters play
Entering(code) ==
    [type |-> code, matrix |-> SHAPES[code][1], rot |-> 0, pos |-> [x |-> SPAWN_X, y |-> 0]]

AllEmpty(a) == \A y \in 1..ROWS : \A x \in 1..COLS : a[y][x] = Null

\* C5: a callback that spawns leaves the popped piece Active at (3,0), in its base
\* orientation and not colliding; when the piece collides with the arena it
\* finds, every cell of the arena is cleared and score, level and lines are
\* reset; when it does not, arena and score state are left as they were.
C5_SpawnNeverFails ==
    [][Has(ops', "spawn") =>
         LET p == Entering(ops'[LastSpawn(ops')].code)
         IN  /\ player' = p
             /\ ~collide(arena', p)
             /\ ~Has(ops', "merge") =>
                  IF collide(arena, p)
                  THEN /\ Has(ops', "reset")
                       /\ AllEmpty(arena')
                       /\ score' = 0 /\ level' = 1 /\ cleared' = 0
                  ELSE /\ ~Has(ops', "reset")
                       /\ arena' = arena
                       /\ score' = score /\ level' = level /\ cleared' = cleared
      ]_vars

\* a spawn collided: the arena is empty and the piece is in play at (3,0)
C5_Witness ==
    /\ Has(ops, "reset")
    /\ Active
    /\ player.pos = [x |-> SPAWN_X, y |-> 0]
    /\ AllEmpty(arena)

Merged == merge(arena, [player EXCEPT !.pos = [x |-> ops'[1].a, y |-> ops'[1].b]])

FullRows(a) == {y \in 1..ROWS : \A x \in 1..COLS : a[y][x] # Null}

NotFull(row) == \E x \in 1..COLS : row[x] = Null

\* the rows of a that are not full, in their order
Kept(a) == SelectSeq([y \in 1..ROWS |-> a[y]], NotFull)

\* C7: a lock leaves the arena as the merged arena with every full row removed,
\* the other rows in their order at the bottom and one empty row on top for every
\* removed row: 20 rows of 10 cells, none of them full.
C7_ClearLines ==
    [][(Has(ops', "merge") /\ ~Has(ops', "reset")) =>
         LET n == Cardinality(FullRows(Merged))
         IN  /\ arena' = [y \in 1..n |-> emptyRow] \o Kept(Merged)
             /\ DOMAIN arena' = 1..ROWS
             /\ \A y \in 1..ROWS : DOMAIN arena'[y] = 1..COLS
             /\ FullRows(arena') = {}
             /\ \E i \in DOMAIN ops' : ops'[i].op = "clear" /\ ops'[i].a = n
      ]_vars

\* two or more rows were cleared by one lock and a row that was not full remains
C7_Witness ==
    /\ \E i \in DOMAIN ops : ops[i].op = "clear" /\ ops[i].a >= 2
    /\ ~AllEmpty(arena)

Points(n) ==
    CASE n = 0 -> 0 [] n = 1 -> 40 [] n = 2 -> 100 [] n = 3 -> 300 [] n = 4 -> 1200

\* C8: a lock that completes n rows completes at most 4 and adds to the score the
\* points of n (0, 40, 100, 300, 1200) times the level before the lock.
C8_ScoreTable ==
    [][Has(ops', "merge") =>
         LET n == Cardinality(FullRows(Merged))
         IN  /\ n <= 4
             /\ ~Has(ops', "reset") => score' = score + Points(n) * level
      ]_vars

\* four rows were cleared at a level above 1
C8_Witness ==
    /\ \E i \in DOMAIN ops : ops[i].op = "clear" /\ ops[i].a = 4
    /\ level >= 2

\* C9: a lock that clears n rows adds n to the lines total and raises the level
\* by 1 exactly when the new total has reached 10 times the level before; the
\* level is floor(lines / 10) + 1 in every state.
C9_Level ==
    /\ [](level = (cleared \div 10) + 1)
    /\ [][(Has(ops', "merge") /\ ~Has(ops', "reset")) =>
            LET n == Cardinality(FullRows(Merged))
            IN  /\ cleared' = cleared + n
                /\ level' = IF n > 0 /\ cleared' >= 10 * level THEN level + 1 ELSE level
         ]_vars

\* a clear has just brought the total to 10 and the level to 2
C9_Witness ==
    /\ \E i \in DOMAIN ops : ops[i].op = "clear" /\ ops[i].a >= 1
    /\ cleared = 10
    /\ level = 2

NonDecreasing == score' >= score /\ level' >= level /\ cleared' >= cleared

\* C10 as stated: score, level and lines never decrease except in a game-over
\* reset, which sets all three to zero.
C10_ResetZeroesAll ==
    [][IF Has(ops', "reset") THEN score' = 0 /\ level' = 0 /\ cleared' = 0
       ELSE NonDecreasing]_vars

\* C10 as amended: score, level and lines never decrease except in a game-over
\* reset, which sets score and lines to zero and the level to 1.
C10_ResetToInitial ==
    [][IF Has(ops', "reset") THEN score' = 0 /\ level' = 1 /\ cleared' = 0
       ELSE NonDecreasing]_vars

\* a game-over reset has just happened
C10_Witness == Has(ops, "reset") /\ score = 0 /\ level = 1 /\ cleared = 0

\* ---- C11
\* the arena cells <<row, column>> (0-based) that the filled cells of p cover
Cover(p) ==
    { <<p.pos.y + dy, p.pos.x + dx>> :
        <<dy, dx>> \in { d \in (0..(Len(p.matrix) - 1)) \X (0..(Len(p.matrix) - 1)) :
                           p.matrix[d[1] + 1][d[2] + 1] = 1 } }

Board == (0..(ROWS - 1)) \X (0..(COLS - 1))

Occupied(a) == { c \in Board : a[c[1] + 1][c[2] + 1] # Null }

\* the piece leaves rows [0,20) or columns [0,10), or lies on an occupied cell
Blocked(a, p) == ~(Cover(p) \subseteq Board) \/ Cover(p) \cap Occupied(a) # {}

\* C11: collide(arena, piece) is true exactly when some filled cell of the piece,
\* translated by the piece's offset, lies outside rows [0,20) or columns [0,10)
\* or on an occupied arena cell; on an empty arena it is false for every
\* placement that is within the bounds
C11_CollideIff ==
    \A i \in 1..Len(ops) :
      ops[i].op = "collide" =>
        /\ (ops[i].a = 1) <=> Blocked(arena, player)
        /\ (arena = createMatrix /\ Cover(player) \subseteq Board) => ops[i].a = 0

\* collide was called for a piece that is within the bounds and lies on an occupied cell
C11_Witness ==
    /\ Has(ops, "collide")
    /\ ops[1].a = 1
    /\ Cover(player) \subseteq Board

\* ---- C12
\* new is old turned by 90 degrees: new[x][N-1-y] = old[y][x] (0-based)
IsTurn(new, old) ==
    /\ Len(new) = Len(old)
    /\ \A y \in 0..(Len(old) - 1) : \A x \in 0..(Len(old) - 1) :
         new[x + 1][Len(old) - y] = old[y + 1][x + 1]

\* the states after one, two, three and four calls of playerRotate in succession
Rot1 == playerRotate(Fresh)
Rot2 == playerRotate(Rot1)
Rot3 == playerRotate(Rot2)
Rot4 == playerRotate(Rot3)

\* each of the four calls found a kick that does not collide
AllFourTurn ==
    /\ IsTurn(Rot1.player.matrix, player.matrix)
    /\ IsTurn(Rot2.player.matrix, Rot1.player.matrix)
    /\ IsTurn(Rot3.player.matrix, Rot2.player.matrix)
    /\ IsTurn(Rot4.player.matrix, Rot3.player.matrix)

Kinds == <<"I", "J", "L", "O", "S", "T", "Z">>

\* the lowest index (1-based) at which the scores take their maximum
MaxIndex(scores) ==
    CHOOSE i \in DOMAIN scores :
      /\ \A j \in DOMAIN scores : scores[j] <= scores[i]
      /\ \A j \in DOMAIN scores : j < i => scores[j] < scores[i]

\* C13: a classification whose scores have their maximum at index i (the lowest
\* such index on ties) yields the kind [I,J,L,O,S,T,Z][i]; delivered while the
\* queue is empty and the controller Idle, that kind is put in the queue and at
\* once becomes the Active piece at (3,0), rotation index 0, base orientation
C13_ClassifiedKindSpawns ==
    [][\A i \in DOMAIN ops' :
         ops'[i].op = "predict" =>
           LET k == Kinds[MaxIndex(ops'[i].a)]
           IN  /\ ops'[i].code = k
               /\ (Idle /\ queue = <<>>) =>
                    /\ \E j \in DOMAIN ops' :
                         ops'[j].op = "unshift" /\ ops'[j].code = k /\ ops'[j].a = 0
                    /\ player' = [type |-> k, matrix |-> SHAPES[k][1], rot |-> 0,
                                  pos |-> [x |-> 3, y |-> 0]]
                    /\ queue' = <<>>]_vars

\* scores with their maximum at indices 2 and 4 were delivered and J is Active
C13_Witness ==
    /\ \E i \in DOMAIN ops :
         ops[i].op = "predict" /\ ops[i].a[2] = ops[i].a[4] /\ ops[i].a[2] > ops[i].a[1]
    /\ Active
    /\ player.type = "J"

\* ---- C14
\* the last callback removed at least one row
RowsCleared == \E i \in DOMAIN ops : ops[i].op = "clear" /\ ops[i].a >= 1

\* C14: a callback that locks the piece (by soft drop, gravity or hard drop) emits
\* exactly one `lock` cue, followed by exactly one `line` cue when at least one
\* row was cleared and by no `line` cue when none was
C14_LockThenLineCue ==
    Has(ops, "merge") =>
      cues = IF RowsCleared THEN <<"lock", "line">> ELSE <<"lock">>

\* ---- C15
\* a control command: move-left, move-right, soft-drop, hard-drop, rotate (either way)
Control == KeyLeft \/ KeyRight \/ KeyDown \/ KeySpace \/ KeyUp \/ KeyZ

\* C15: while the controller is Idle every control command is a no-op: arena,
\* active-piece fields (kind, matrix, position), queue and score state stay as
\* they were
C15_IdleControlsNoOp ==
    [][(Idle /\ Control) => UNCHANGED <<arena, player, queue, score, level, cleared>>]_vars

\* ---- C16
\* the arena a with the cells that p covers set to the kind of p
Stamp(a, p) ==
    [y \in 1..ROWS |->
       [x \in 1..COLS |-> IF <<y - 1, x - 1>> \in Cover(p) THEN p.type ELSE a[y][x]]]

\* the arena a with its full rows removed and as many empty rows put on top
Swept(a) == [y \in 1..Cardinality(FullRows(a)) |-> emptyRow] \o Kept(a)

\* the Active piece one row further down
Lowered == [player EXCEPT !.pos.y = @ + 1]

\* C16: softDrop on an Active piece moves it down by exactly one row when the
\* lowered piece does not collide; otherwise the step is reverted, the filled
\* cells are merged into the arena exactly once at the reverted position, line
\* clearing runs, and the controller ends Idle unless the queue supplies a piece
C16_SoftDrop ==
    [][(Active /\ KeyDown) =>
         IF ~Blocked(arena, Lowered)
         THEN /\ player' = Lowered
              /\ ops' = <<>>
              /\ UNCHANGED <<arena, queue, score, level, cleared>>
         ELSE /\ Count(ops', "merge") = 1
              /\ ops'[1] = Op("merge", player.type, player.pos.x, player.pos.y)
              /\ Count(ops', "clear") = 1
              /\ arena' = Swept(Stamp(arena, player))
              /\ IF queue = <<>> THEN player'.matrix = NoMatrix
                                  ELSE player'.type = Head(queue)
      ]_vars

\* a soft drop has locked the piece and cleared a row, and the controller is Idle
C16_Witness ==
    /\ Has(ops, "merge")
    /\ cues = <<"lock", "line">>
    /\ Idle

\* ---- C17
\* the state after softDrop was applied again and again until it locked the piece
RECURSIVE SoftUntilLock(_)
SoftUntilLock(s) ==
    LET s1 == playerDrop(s)
    IN  IF Has(s1.ops, "merge") THEN s1 ELSE SoftUntilLock(s1)

\* arena, score state, active-piece state, queue and drawing-enabled flag of s
Listed(s) == <<s.arena, s.score, s.level, s.cleared, s.player, s.queue, s.overlay>>

\* the records o show one merge, the first of them, at most 20 rows below row y0
MergedOnce(o, y0) ==
    /\ Count(o, "merge") = 1
    /\ o[1].op = "merge"
    /\ (o[1].b - y0) + 1 <= 20

\* C17: hardDrop on an Active piece ends after at most 20 vertical steps and
\* leaves arena, score, level, lines, active-piece state, queue and the
\* drawing-enabled flag as softDrop applied repeatedly until the lock leaves
\* them; the piece is merged exactly once
C17_HardDropAsSoftDrops ==
    Active =>
      \A hd \in {hardDrop(Fresh)} :
        /\ Listed(hd) = Listed(SoftUntilLock(Fresh))
        /\ MergedOnce(hd.ops, player.pos.y)

\* a hard drop has locked the piece and cleared a row
C17_Witness ==
    /\ Has(ops, "merge")
    /\ cues = <<"line">>
    /\ Idle

\* ---- C18
\* the matrix m turned by 90 degrees
Turn(m) == [r \in 1..Len(m) |-> [c \in 1..Len(m) |-> m[Len(m) + 1 - c][r]]]

\* the column offsets that rotate() tries, in their order
KickOrder == <<0, 1, -1, 2, -2>>

\* the Active piece turned and shifted by the i-th offset
Kicked(i) == [player EXCEPT !.matrix = Turn(player.matrix), !.pos.x = @ + KickOrder[i]]

\* the offsets (by their place in the order) at which the turned piece does not collide
FreeKicks == { i \in DOMAIN KickOrder : ~Blocked(arena, Kicked(i)) }

\* C18: rotate() on an Active piece replaces the matrix by its 90-degree rotation
\* (new[x][N-1-y] = old[y][x]) and shifts x by the first of the offsets
\* 0, +1, -1, +2, -2 at which the rotated piece does not collide; when all five
\* collide, matrix and x are exactly as before; y, arena, queue and score state
\* are never changed
C18_RotateWithKicks ==
    [][(Active /\ KeyUp) =>
         /\ UNCHANGED <<arena, queue, score, level, cleared>>
         /\ player'.pos.y = player.pos.y
         /\ IF FreeKicks = {}
            THEN player'.matrix = player.matrix /\ player'.pos.x = player.pos.x
            ELSE LET first == CHOOSE i \in FreeKicks : \A j \in FreeKicks : i <= j
                 IN  /\ IsTurn(player'.matrix, player.matrix)
                     /\ player'.matrix = Turn(player.matrix)
                     /\ player'.pos.x = player.pos.x + KickOrder[first]
      ]_vars

\* a T piece over the wall between the two wells has been turned and kicked to the
\* right, into the well in column 5
C18_Witness ==
    /\ Active
    /\ arena = DeepWell
    /\ player.matrix = Turn(SHAPES["T"][1])
    /\ player.pos = [x |-> 4, y |-> 2]

\* ---- C19
\* the Active piece dx columns further to the right
Shifted(dx) == [player EXCEPT !.pos.x = @ + dx]

\* the piece is moved by dx unless it would collide, and nothing else changes
MovedBy(dx) ==
    /\ player' = IF Blocked(arena, Shifted(dx)) THEN player ELSE Shifted(dx)
    /\ UNCHANGED <<arena, queue, score, level, cleared>>

\* C19: move(dx) on an Active piece changes x by dx when the translated piece
\* does not collide and otherwise leaves the piece as it was; y, matrix, arena,
\* queue and score state are unchanged
C19_Move ==
    [][/\ (Active /\ KeyLeft) => MovedBy(-1)
       /\ (Active /\ KeyRight) => MovedBy(1)]_vars

\* an I piece has been moved from its spawn column to the left wall
C19_Witness ==
    /\ Active
    /\ player.matrix = SHAPES["I"][1]
    /\ player.pos.x = 0

\* ---- C20
\* dropInterval(level) = max(100, 800 - 60 x (level - 1))
Interval(lv) == IF 800 - 60 * (lv - 1) >= 100 THEN 800 - 60 * (lv - 1) ELSE 100

\* r is the state after exactly one softDrop on the Active piece
OneSoftDrop(r) ==
    IF ~Blocked(arena, Lowered)
    THEN r.player = Lowered /\ r.arena = arena /\ r.ops = <<>>
    ELSE /\ Count(r.ops, "merge") = 1
         /\ r.arena = Swept(Stamp(arena, player))
         /\ r.player.matrix = NoMatrix

\* C20: on a frame callback exactly one softDrop is performed if and only if the
\* game is not paused, a piece is Active and the accumulator, after the elapsed
\* time was added, exceeds dropInterval(level) = max(100, 800 - 60 x (level - 1));
\* the accumulator is 0 afterwards. While paused or Idle a frame neither changes
\* the accumulator nor moves or locks a piece.
C20_Gravity ==
    \A delta \in FrameDeltas :
      \A r \in {update(Fresh, delta)} :
        IF ~paused /\ Active
        THEN IF dropCounter + delta > Interval(level)
             THEN OneSoftDrop(r) /\ r.dropCounter = 0
             ELSE /\ r.dropCounter = dropCounter + delta
                  /\ r.player = player /\ r.arena = arena /\ r.ops = <<>>
        ELSE r.dropCounter = dropCounter /\ r.player = player /\ r.arena = arena
             /\ r.ops = <<>>

\* at level 13 a frame has left exactly 100 ms in the accumulator and the piece
\* where it was spawned
C20_Witness ==
    /\ Active
    /\ ~paused
    /\ level = 13
    /\ dropCounter = Interval(13)
    /\ player.pos.y = 0

\* ---- C21
\* the piece was merged and line clearing ran in the last callback, the queue had
\* no identity to give, and the controller is Idle with drawing enabled again
Settled ==
    /\ Has(ops, "merge")
    /\ Has(ops, "clear")
    /\ ~Has(ops, "spawn")
    /\ queue = <<>>
    /\ Idle
    /\ ~overlay

\* C21: when the game does not stay paused and frames keep arriving with positive
\* elapsed time, every piece that is Active is eventually merged into the arena,
\* line clearing runs, the queue is asked for the next identity and, the queue
\* being empty, the controller is Idle again with drawing enabled
C21_EveryPieceLocks == (<>[](~paused)) => (Active ~> Settled)

\* gravity alone has locked a piece
C21_Witness ==
    /\ Settled
    /\ cues \in {<<"lock">>, <<"lock", "line">>}
    /\ steps = LiveSteps

\* ---- C22
\* the cells written by the merges of the callback: those of the piece it started
\* with, at the position recorded with each merge
MergedCells ==
    UNION { Cover([player EXCEPT !.pos = [x |-> ops'[i].a, y |-> ops'[i].b]]) :
              i \in { j \in DOMAIN ops' : ops'[j].op = "merge" } }

\* C22: between callbacks an Active piece does not collide: every filled cell of
\* its matrix, translated by its offset, lies in rows [0,20) and columns [0,10)
\* on an empty cell of the arena; hence every merge writes only cells within
\* these bounds that were empty
C22_ActiveNeverCollides ==
    [][/\ Active' =>
            /\ Cover(player') \subseteq (0..19) \X (0..9)
            /\ \A c \in Cover(player') : arena'[c[1] + 1][c[2] + 1] = Null
            /\ ~collide(arena', player')
       /\ Has(ops', "merge") =>
            /\ MergedCells # {}
            /\ MergedCells \subseteq (0..19) \X (0..9)
            /\ \A c \in MergedCells : arena[c[1] + 1][c[2] + 1] = Null
      ]_vars

\* an Active piece rests on occupied cells, below its spawn row
C22_Witness ==
    /\ Active
    /\ player.pos.y > 0
    /\ Blocked(arena, Lowered)
    /\ Cover(Lowered) \subseteq Board

\* ---- C23
\* C23: the queue is empty between callbacks and never holds more than one
\* identity: a classified kind is popped in the callback that pushed it, so the
\* spawn attempted right after a lock finds the queue empty and every lock
\* returns the controller to Idle
C23_QueueEmptyBetweenCallbacks ==
    [][/\ queue = <<>>
       /\ queue' = <<>>
       /\ \A i \in DOMAIN ops' :
            /\ ops'[i].op \in {"unshift", "shift"} => (ops'[i].a <= 1 /\ ops'[i].b <= 1)
            /\ ops'[i].op = "unshift" =>
                 /\ i < Len(ops')
                 /\ ops'[i + 1].op = "shift"
                 /\ ops'[i + 1].code = ops'[i].code
       /\ Has(ops', "merge") =>
            /\ ~Has(ops', "shift")
            /\ ~Has(ops', "spawn")
            /\ player'.matrix = NoMatrix
      ]_vars

\* a second piece was classified, pushed and popped after the first one was locked
C23_Witness ==
    /\ Has(ops, "unshift")
    /\ Has(ops, "shift")
    /\ queue = <<>>
    /\ Active
    /\ \E y \in 1..ROWS : \E x \in 1..COLS : arena[y][x] \notin {Null, "I"}

\* ---- C24
\* C24: whenever a piece becomes Active the gravity accumulator is 0, so that the
\* first gravity step of the piece comes only after more than dropInterval(level)
\* of unpaused time since its spawn
C24_AccumulatorZeroAtSpawn ==
    [][(Has(ops', "spawn") /\ Active') => dropCounter' = 0]_vars

====
